---- MODULE Spec2Model ----
(***************************************************************************)
(* The back-navigation registry of src/src/back-handler.ts: the BackHandler *)
(* singleton (installed, history, the addHistory/removeHistory slots), the  *)
(* install routine with the closures it creates, the teardown it registers  *)
(* with app.onUnmount, and the listener it hands to the platform; and the   *)
(* bindings useBackHandler creates on top of it.                            *)
(***************************************************************************)
EXTENDS Integers, Sequences, FiniteSets, TLC

\* Longest history the model lets the live addHistory build.
MaxHistory == 3
\* Most listeners the model lets install register (successful installs).
MaxListeners == 2

\* The entry objects callers hold (BackHandlerHistoryEntry references).
\* "e1" is created without a condition, "e2" and "e3" with one.
Entries == {"e1", "e2", "e3"}
NoEntry == "none"

\* Whether the caller supplied the optional condition of an entry.
HasCondition(entry) == entry # "e1"

\* The options objects callers pass to install (BackHandlerOptions).
\* "optA" configures both observers, "optB" configures neither.
OptionIds == {"optA", "optB"}
NoOptions == "none"
HasOnHistoryAdded(o) == o = "optA"
HasOnHistoryRemoved(o) == o = "optA"

\* The usage sites that called useBackHandler (one binding each).
Bindings == {"b1", "b2"}

\* The entry objects a binding's addToHistory can create.  Every call creates
\* a new object; an identity is used again only once its object is held
\* nowhere (neither in history nor by the binding).  A binding has at most
\* MaxHistory objects in history and one more retained outside of it, so
\* MaxHistory + 1 identities always leave one for the next call.
ObjectNames(b) ==
  IF b = "b1" THEN <<"b1.x", "b1.y", "b1.z", "b1.u", "b1.v">>
              ELSE <<"b2.x", "b2.y", "b2.z", "b2.u", "b2.v">>
Created(b) == {ObjectNames(b)[k] : k \in 1..(MaxHistory + 1)}
CreatedEntries == UNION {Created(b) : b \in Bindings}
Owner(entry) == CHOOSE b \in Bindings : entry \in Created(b)

VARIABLES
  isBrowser,      \* ./utils isBrowser, fixed for the life of the module
  installed,      \* BackHandler.installed
  history,        \* BackHandler.history: sequence of entry references
  addHistory,     \* BackHandler.addHistory slot
  removeHistory,  \* BackHandler.removeHistory slot
  listeners,      \* listeners handed to registerPlatformBackListener, each
                  \* the options of the install that created it
  condition,      \* entry.condition of each entry object
  flag,           \* what each caller-supplied condition function returns now
  order,          \* per position of history: insertion rank among those present
  calls,          \* callbacks invoked by the latest operation, in order
  last,           \* the latest operation and the state it started from
  historyEntry,   \* per binding: useBackHandler's historyEntry (NoEntry = null)
  autoHide,       \* per binding: current toValue(autoHideOnRouteChange)
  disposed,       \* the bindings whose scope has been disposed
  lastB,          \* the latest binding operation, if the latest operation was one
  thrown          \* the callback that threw in the latest operation, and what
                  \* reached the operation's caller

vars == <<isBrowser, installed, history, addHistory, removeHistory, listeners,
          condition, flag, order, calls, last,
          historyEntry, autoHide, disposed, lastB, thrown>>

\* ./utils noop: a function that does nothing.
noop == [kind |-> "noop", options |-> NoOptions]
\* A closure created by install, capturing that call's options.
Live(o) == [kind |-> "live", options |-> o]

\* ./utils getTrue: a function returning true.
getTrue == TRUE

\* Not a binding operation; no callback threw.
NoBindingOp == [op |-> "none", binding |-> "none", retained |-> NoEntry, showing |-> FALSE]
NoThrow == [by |-> "none", raised |-> "none"]

Call(fn, o, entry) == [fn |-> fn, opt |-> o, entry |-> entry]
Op(name, o, entry) ==
  [op |-> name, opt |-> o, entry |-> entry,
   installed |-> installed, before |-> history]

----------------------------------------------------------------------------
\* Array primitives, as the code uses them.

\* Variant: the entry is put at the front (unshift instead of push).
Push_Front(h, x) == <<x>> \o h

\* history.push(entry)
Push(h, x) == Append(h, x)

\* Variant: the last match is found (lastIndexOf instead of indexOf).
IndexOf_Last(h, x) ==
  IF \E i \in 1..Len(h) : h[i] = x
  THEN (CHOOSE i \in 1..Len(h) : h[i] = x /\ \A j \in (i + 1)..Len(h) : h[j] # x) - 1
  ELSE -1

\* history.indexOf(entry): 0-based index of the first match, -1 when absent
IndexOf(h, x) ==
  IF \E i \in 1..Len(h) : h[i] = x
  THEN (CHOOSE i \in 1..Len(h) : h[i] = x /\ \A j \in 1..(i - 1) : h[j] # x) - 1
  ELSE -1

\* history.splice(index, 1) for a 0-based index in range
Splice(h, index) == SubSeq(h, 1, index) \o SubSeq(h, index + 2, Len(h))

\* history[history.length - 1]
Top(h) == h[Len(h)]

\* Variant: the oldest element is removed (shift instead of pop).
Pop_Shift(h) == SubSeq(h, 2, Len(h))

\* history.pop()
Pop(h) == SubSeq(h, 1, Len(h) - 1)

\* Variant: the condition's result is not consulted.
EvalCondition_IgnoresFlag(entry) == TRUE

\* Variant: a binding's condition does not read the auto-hide flag again.
EvalCondition_AutoHideOnce(entry) ==
  CASE condition[entry] = "getTrue" -> getTrue
    [] condition[entry] = "fn" -> flag[entry]
    [] condition[entry] = "autoHide" -> TRUE

\* entry.condition!(): the default getTrue, the caller's function, or a
\* binding's () => toValue(autoHideOnRouteChange)
EvalCondition(entry) ==
  CASE condition[entry] = "getTrue" -> getTrue
    [] condition[entry] = "fn" -> flag[entry]
    [] condition[entry] = "autoHide" -> autoHide[Owner(entry)]

\* Insertion ranks after the occurrence ranked r has left.
Close(ranks, r) == [i \in DOMAIN ranks |-> IF ranks[i] > r THEN ranks[i] - 1 ELSE ranks[i]]

----------------------------------------------------------------------------
Init ==
  /\ isBrowser \in BOOLEAN
  /\ installed = FALSE
  /\ history = <<>>
  /\ addHistory = noop
  /\ removeHistory = noop
  /\ listeners = <<>>
  /\ condition = [e \in Entries \cup CreatedEntries |->
                    IF e \in CreatedEntries THEN "autoHide"
                    ELSE IF HasCondition(e) THEN "fn" ELSE "undefined"]
  /\ flag = [e \in Entries |-> TRUE]
  /\ order = <<>>
  /\ calls = <<>>
  /\ last = [op |-> "init", opt |-> NoOptions, entry |-> NoEntry,
             installed |-> FALSE, before |-> <<>>]
  /\ historyEntry = [b \in Bindings |-> NoEntry]
  /\ autoHide = [b \in Bindings |-> TRUE]
  /\ disposed = {}
  /\ lastB = NoBindingOp
  /\ thrown = NoThrow

\* Variant: the early return forgets the installed flag.
InstallSkips_EnvOnly == ~isBrowser

\* install's early return: if (self.installed || !isBrowser) return
InstallSkips == installed \/ ~isBrowser

\* BackHandler.install(app, options)
Install(o) ==
  /\ last' = Op("install", o, NoEntry)
  /\ IF InstallSkips
     THEN /\ calls' = <<>>
          /\ UNCHANGED <<installed, addHistory, removeHistory, listeners>>
     ELSE /\ Len(listeners) < MaxListeners
          /\ installed' = TRUE
          /\ addHistory' = Live(o)
          /\ removeHistory' = Live(o)
          /\ listeners' = Append(listeners, o)
          /\ calls' = <<Call("registerPlatformBackListener", o, NoEntry)>>
  /\ UNCHANGED <<isBrowser, history, condition, flag, order>>

\* Variant: the teardown leaves the live closures in the slots.
Unmount_KeepsSlots ==
  /\ installed
  /\ last' = Op("unmount", NoOptions, NoEntry)
  /\ history' = <<>>
  /\ order' = <<>>
  /\ installed' = FALSE
  /\ calls' = <<>>
  /\ UNCHANGED <<isBrowser, addHistory, removeHistory, listeners, condition, flag>>

\* Variant: the teardown does not empty history.
Unmount_KeepsHistory ==
  /\ installed
  /\ last' = Op("unmount", NoOptions, NoEntry)
  /\ addHistory' = noop
  /\ removeHistory' = noop
  /\ installed' = FALSE
  /\ calls' = <<>>
  /\ UNCHANGED <<isBrowser, history, order, listeners, condition, flag>>

\* The callback install hands to app.onUnmount; it runs when that app unmounts.
Unmount ==
  /\ installed
  /\ last' = Op("unmount", NoOptions, NoEntry)
  /\ addHistory' = noop
  /\ removeHistory' = noop
  /\ history' = <<>>
  /\ order' = <<>>
  /\ installed' = FALSE
  /\ calls' = <<>>
  /\ UNCHANGED <<isBrowser, listeners, condition, flag>>

\* Variant: the live addHistory forgets to call onHistoryAdded.
AddHistory_NoNotify(entry) ==
  /\ last' = Op("addHistory", addHistory.options, entry)
  /\ IF addHistory.kind = "noop"
     THEN UNCHANGED <<history, order, condition>>
     ELSE /\ Len(history) < MaxHistory
          /\ condition' = [condition EXCEPT
                             ![entry] = IF @ = "undefined" THEN "getTrue" ELSE @]
          /\ history' = Push(history, entry)
          /\ order' = Push(order, Len(order) + 1)
  /\ calls' = <<>>
  /\ UNCHANGED <<isBrowser, installed, addHistory, removeHistory, listeners, flag>>

\* BackHandler.addHistory(entry): whatever the slot holds
AddHistory(entry) ==
  /\ last' = Op("addHistory", addHistory.options, entry)
  /\ IF addHistory.kind = "noop"
     THEN /\ calls' = <<>>
          /\ UNCHANGED <<history, order, condition>>
     ELSE /\ Len(history) < MaxHistory
          /\ condition' = [condition EXCEPT
                             ![entry] = IF @ = "undefined" THEN "getTrue" ELSE @]
          /\ history' = Push(history, entry)
          /\ order' = Push(order, Len(order) + 1)
          /\ calls' = IF HasOnHistoryAdded(addHistory.options)
                      THEN <<Call("onHistoryAdded", addHistory.options, entry)>>
                      ELSE <<>>
  /\ UNCHANGED <<isBrowser, installed, addHistory, removeHistory, listeners, flag>>

\* BackHandler.removeHistory(entry): whatever the slot holds
RemoveHistory(entry) ==
  /\ last' = Op("removeHistory", removeHistory.options, entry)
  /\ IF removeHistory.kind = "noop"
     THEN /\ calls' = <<>>
          /\ UNCHANGED <<history, order>>
     ELSE LET index == IndexOf(history, entry) IN
          IF index > -1
          THEN /\ history' = Splice(history, index)
               /\ order' = Close(Splice(order, index), order[index + 1])
               /\ calls' = IF HasOnHistoryRemoved(removeHistory.options)
                           THEN <<Call("onHistoryRemoved", removeHistory.options, entry)>>
                           ELSE <<>>
          ELSE /\ calls' = <<>>
               /\ UNCHANGED <<history, order>>
  /\ UNCHANGED <<isBrowser, installed, addHistory, removeHistory, listeners,
                 condition, flag>>

\* Variant: a failing condition falls through to defaultBackAction.
BackListener_FallsThrough(i) ==
  /\ i \in 1..Len(listeners)
  /\ last' = Op("backHandler", listeners[i], NoEntry)
  /\ IF Len(history) # 0 /\ EvalCondition(Top(history))
     THEN /\ history' = Pop(history)
          /\ order' = Close(Pop(order), Top(order))
          /\ calls' = <<Call("handler", NoOptions, Top(history))>>
     ELSE /\ calls' = <<Call("defaultBackAction", listeners[i], NoEntry)>>
          /\ UNCHANGED <<history, order>>
  /\ UNCHANGED <<isBrowser, installed, addHistory, removeHistory, listeners,
                 condition, flag>>

\* The listener install registered with the platform, invoked once.
\* i selects which registered listener runs; it captures options listeners[i].
BackListener(i) ==
  /\ i \in 1..Len(listeners)
  /\ last' = Op("backHandler", listeners[i], NoEntry)
  /\ IF Len(history) # 0
     THEN LET entry == Top(history) IN
          IF EvalCondition(entry)
          THEN /\ history' = Pop(history)
               /\ order' = Close(Pop(order), Top(order))
               /\ calls' = <<Call("handler", NoOptions, entry)>>
          ELSE /\ calls' = <<>>
               /\ UNCHANGED <<history, order>>
     ELSE /\ calls' = <<Call("defaultBackAction", listeners[i], NoEntry)>>
          /\ UNCHANGED <<history, order>>
  /\ UNCHANGED <<isBrowser, installed, addHistory, removeHistory, listeners,
                 condition, flag>>

\* The caller's condition function of an entry starts returning b.
SetCondition(entry, b) ==
  /\ HasCondition(entry)
  /\ flag[entry] # b
  /\ flag' = [flag EXCEPT ![entry] = b]
  /\ last' = Op("setCondition", NoOptions, entry)
  /\ calls' = <<>>
  /\ UNCHANGED <<isBrowser, installed, history, addHistory, removeHistory,
                 listeners, condition, order>>

\* A step of the registry made by no binding, in which no callback throws.
Quiet ==
  /\ lastB' = NoBindingOp
  /\ thrown' = NoThrow
  /\ UNCHANGED <<historyEntry, autoHide, disposed>>

Next ==
  \/ \E o \in OptionIds : Install(o) /\ Quiet
  \/ Unmount /\ Quiet
  \/ \E entry \in Entries : AddHistory(entry) /\ Quiet
  \/ \E entry \in Entries : RemoveHistory(entry) /\ Quiet
  \/ \E i \in 1..MaxListeners : BackListener(i) /\ Quiet
  \/ \E entry \in Entries, b \in BOOLEAN : SetCondition(entry, b) /\ Quiet

Spec == Init /\ [][Next]_vars

----------------------------------------------------------------------------
\* useBackHandler(showing, onHide, autoHideOnRouteChange): one binding b.
\* Its entries have condition () => toValue(autoHideOnRouteChange) and
\* handler onHide.

RegistryUnchanged ==
  UNCHANGED <<isBrowser, installed, history, addHistory, removeHistory,
              listeners, condition, flag, order>>

\* Variant: addToHistory registers the object it already retains again.
NewEntry_Reuses(b) ==
  IF historyEntry[b] # NoEntry
  THEN historyEntry[b]
  ELSE CHOOSE e \in Created(b) : \A i \in 1..Len(history) : history[i] # e

\* The object literal addToHistory creates: an object held nowhere so far.
NewEntry(b) ==
  CHOOSE e \in Created(b) :
    e # historyEntry[b] /\ \A i \in 1..Len(history) : history[i] # e

\* Variant: addToHistory forgets to retain the entry it registers.
AddToHistory_NotRetained(b) ==
  /\ AddHistory(NewEntry(b))
  /\ lastB' = [op |-> "addToHistory", binding |-> b,
               retained |-> historyEntry[b], showing |-> FALSE]
  /\ thrown' = NoThrow
  /\ UNCHANGED <<historyEntry, autoHide, disposed>>

\* Variant: addToHistory takes the entry it retained out of history first.
AddToHistory_RemovesPrevious(b) ==
  /\ historyEntry' = [historyEntry EXCEPT ![b] = NewEntry(b)]
  /\ last' = Op("addHistory", addHistory.options, NewEntry(b))
  /\ IF addHistory.kind = "noop"
     THEN /\ calls' = <<>>
          /\ UNCHANGED <<history, order>>
     ELSE LET index == IndexOf(history, historyEntry[b])
              kept == IF index > -1 THEN Splice(history, index) ELSE history
          IN /\ Len(kept) < MaxHistory
             /\ history' = Push(kept, NewEntry(b))
             /\ order' = [k \in 1..(Len(kept) + 1) |-> k]
             /\ calls' = <<Call("onHistoryAdded", addHistory.options, NewEntry(b))>>
  /\ UNCHANGED <<isBrowser, installed, addHistory, removeHistory, listeners,
                 condition, flag>>
  /\ lastB' = [op |-> "addToHistory", binding |-> b,
               retained |-> historyEntry[b], showing |-> FALSE]
  /\ thrown' = NoThrow
  /\ UNCHANGED <<autoHide, disposed>>

\* addToHistory()
AddToHistory(b) ==
  /\ historyEntry' = [historyEntry EXCEPT ![b] = NewEntry(b)]
  /\ AddHistory(NewEntry(b))
  /\ lastB' = [op |-> "addToHistory", binding |-> b,
               retained |-> historyEntry[b], showing |-> FALSE]
  /\ thrown' = NoThrow
  /\ UNCHANGED <<autoHide, disposed>>

\* Variant: the binding takes the top of history instead of its own entry.
removeFromHistory_Pops(b) ==
  IF historyEntry[b] # NoEntry /\ removeHistory.kind = "live" /\ Len(history) # 0
  THEN /\ RemoveHistory(Top(history))
       /\ historyEntry' = [historyEntry EXCEPT ![b] = NoEntry]
  ELSE /\ last' = Op("removeFromHistory", NoOptions, NoEntry)
       /\ calls' = <<>>
       /\ historyEntry' = [historyEntry EXCEPT ![b] = NoEntry]
       /\ RegistryUnchanged

\* function removeFromHistory(): its effect on the registry and on historyEntry
removeFromHistory(b) ==
  IF historyEntry[b] # NoEntry
  THEN /\ RemoveHistory(historyEntry[b])
       /\ historyEntry' = [historyEntry EXCEPT ![b] = NoEntry]
  ELSE /\ last' = Op("removeFromHistory", NoOptions, NoEntry)
       /\ calls' = <<>>
       /\ UNCHANGED historyEntry
       /\ RegistryUnchanged

\* removeFromHistory() called by the binding's user
RemoveFromHistory(b) ==
  /\ removeFromHistory(b)
  /\ lastB' = [op |-> "removeFromHistory", binding |-> b,
               retained |-> historyEntry[b], showing |-> FALSE]
  /\ thrown' = NoThrow
  /\ UNCHANGED <<autoHide, disposed>>

\* Variant: the scope's disposal never removes the entry.
Dispose_NeverRemoves(b, showing) ==
  /\ b \notin disposed
  /\ disposed' = disposed \cup {b}
  /\ last' = Op("onScopeDispose", NoOptions, NoEntry)
  /\ calls' = <<>>
  /\ UNCHANGED historyEntry
  /\ RegistryUnchanged
  /\ lastB' = [op |-> "onScopeDispose", binding |-> b,
               retained |-> historyEntry[b], showing |-> showing]
  /\ thrown' = NoThrow
  /\ UNCHANGED autoHide

\* Variant: the scope's disposal removes the entry whatever showing is.
Dispose_AlwaysRemoves(b, showing) ==
  /\ b \notin disposed
  /\ disposed' = disposed \cup {b}
  /\ removeFromHistory(b)
  /\ lastB' = [op |-> "onScopeDispose", binding |-> b,
               retained |-> historyEntry[b], showing |-> showing]
  /\ thrown' = NoThrow
  /\ UNCHANGED autoHide

\* The onScopeDispose callback: toValue(showing) && removeFromHistory().
\* showing is the value toValue(showing) has when the scope is disposed.
Dispose(b, showing) ==
  /\ b \notin disposed
  /\ disposed' = disposed \cup {b}
  /\ IF showing
     THEN removeFromHistory(b)
     ELSE /\ last' = Op("onScopeDispose", NoOptions, NoEntry)
          /\ calls' = <<>>
          /\ UNCHANGED historyEntry
          /\ RegistryUnchanged
  /\ lastB' = [op |-> "onScopeDispose", binding |-> b,
               retained |-> historyEntry[b], showing |-> showing]
  /\ thrown' = NoThrow
  /\ UNCHANGED autoHide

\* The auto-hide flag of a binding takes the value v.
SetAutoHide(b, v) ==
  /\ autoHide[b] # v
  /\ autoHide' = [autoHide EXCEPT ![b] = v]
  /\ last' = Op("setAutoHide", NoOptions, NoEntry)
  /\ calls' = <<>>
  /\ RegistryUnchanged
  /\ lastB' = NoBindingOp
  /\ thrown' = NoThrow
  /\ UNCHANGED <<historyEntry, disposed>>

\* What the handler of the popped entry does while the listener is running.
\*   "callsRemoveHistory":     it calls BackHandler.removeHistory with its own entry
\*   "callsRemoveFromHistory": it is a binding's onHide and calls that binding's
\*                             removeFromHistory
\*   "callsAddHistory":        it calls BackHandler.addHistory(HandlerAdds)
HandlerBodies == {"callsRemoveHistory", "callsRemoveFromHistory",
                  "callsAddHistory"}
HandlerAdds == "e1"

\* The entry the handler of `entry` passes to removeHistory (NoEntry: none).
HandlerTarget(entry, body) ==
  CASE body = "callsRemoveHistory" -> entry
    [] body = "callsRemoveFromHistory" -> historyEntry[Owner(entry)]
    [] body = "callsAddHistory" -> NoEntry

\* History, insertion ranks and callbacks after the handler's body has run
\* on history h with ranks r.
AfterHandler(h, r, entry, body) ==
  LET target == HandlerTarget(entry, body)
      index == IndexOf(h, target)
  IN IF body = "callsAddHistory"
     THEN IF addHistory.kind = "live"
          THEN [history |-> Push(h, HandlerAdds),
                order |-> Push(r, Len(r) + 1),
                calls |-> IF HasOnHistoryAdded(addHistory.options)
                          THEN <<Call("onHistoryAdded", addHistory.options, HandlerAdds)>>
                          ELSE <<>>]
          ELSE [history |-> h, order |-> r, calls |-> <<>>]
     ELSE IF target # NoEntry /\ removeHistory.kind = "live" /\ index > -1
          THEN [history |-> Splice(h, index),
                order |-> Close(Splice(r, index), r[index + 1]),
                calls |-> IF HasOnHistoryRemoved(removeHistory.options)
                          THEN <<Call("onHistoryRemoved", removeHistory.options, target)>>
                          ELSE <<>>]
          ELSE [history |-> h, order |-> r, calls |-> <<>>]

\* Variant: the listener calls the handler first and pops afterwards.
HandlerReenters_BeforePop(i, body) ==
  /\ i \in 1..Len(listeners)
  /\ Len(history) # 0
  /\ EvalCondition(Top(history))
  /\ body = "callsRemoveFromHistory" => Top(history) \in CreatedEntries
  /\ LET entry == Top(history)
         after == AfterHandler(history, order, entry, body)
     IN /\ history' = Pop(after.history)
        /\ order' = [k \in 1..Len(Pop(after.history)) |-> k]
        /\ calls' = <<Call("handler", NoOptions, entry)>> \o after.calls
        /\ historyEntry' = IF body = "callsRemoveFromHistory"
                           THEN [historyEntry EXCEPT ![Owner(entry)] = NoEntry]
                           ELSE historyEntry
        /\ condition' = IF body = "callsAddHistory" /\ addHistory.kind = "live"
                           /\ condition[HandlerAdds] = "undefined"
                        THEN [condition EXCEPT ![HandlerAdds] = "getTrue"]
                        ELSE condition
        /\ last' = Op("backHandler", listeners[i], NoEntry)
        /\ lastB' = [op |-> body, binding |-> "handler",
                     retained |-> HandlerTarget(entry, body), showing |-> FALSE]
  /\ thrown' = NoThrow
  /\ UNCHANGED <<isBrowser, installed, addHistory, removeHistory, listeners,
                 flag, autoHide, disposed>>

\* The listener, invoked when the top entry's condition passes and its
\* handler calls back into the registry: self.history.pop(), then
\* entry.handler() with the given body.
HandlerReenters(i, body) ==
  /\ i \in 1..Len(listeners)
  /\ Len(history) # 0
  /\ EvalCondition(Top(history))
  /\ body = "callsRemoveFromHistory" => Top(history) \in CreatedEntries
  /\ LET entry == Top(history)
         after == AfterHandler(Pop(history), Close(Pop(order), Top(order)),
                               entry, body)
     IN /\ history' = after.history
        /\ order' = after.order
        /\ calls' = <<Call("handler", NoOptions, entry)>> \o after.calls
        /\ historyEntry' = IF body = "callsRemoveFromHistory"
                           THEN [historyEntry EXCEPT ![Owner(entry)] = NoEntry]
                           ELSE historyEntry
        /\ condition' = IF body = "callsAddHistory" /\ addHistory.kind = "live"
                           /\ condition[HandlerAdds] = "undefined"
                        THEN [condition EXCEPT ![HandlerAdds] = "getTrue"]
                        ELSE condition
        /\ last' = Op("backHandler", listeners[i], NoEntry)
        /\ lastB' = [op |-> body, binding |-> "handler",
                     retained |-> HandlerTarget(entry, body), showing |-> FALSE]
  /\ thrown' = NoThrow
  /\ UNCHANGED <<isBrowser, installed, addHistory, removeHistory, listeners,
                 flag, autoHide, disposed>>

\* The registry used through two bindings, installed with the options
\* "optA", next to one caller that registers the entry "e1" directly.
BindingNext ==
  \/ Install("optA") /\ Quiet
  \/ Unmount /\ Quiet
  \/ AddHistory("e1") /\ Quiet
  \/ RemoveHistory("e1") /\ Quiet
  \/ \E i \in 1..MaxListeners : BackListener(i) /\ Quiet
  \/ \E b \in Bindings : AddToHistory(b)
  \/ \E b \in Bindings : RemoveFromHistory(b)

SpecBinding == Init /\ [][BindingNext]_vars

\* The same, with the bindings' scopes being disposed.
DisposeNext ==
  \/ BindingNext
  \/ \E b \in Bindings, showing \in BOOLEAN : Dispose(b, showing)

SpecDispose == Init /\ [][DisposeNext]_vars

\* The same, with the bindings' auto-hide flags changing.
AutoHideNext ==
  \/ BindingNext
  \/ \E b \in Bindings, v \in BOOLEAN : SetAutoHide(b, v)

SpecAutoHide == Init /\ [][AutoHideNext]_vars

\* The same, with handlers that call back into the registry.
ReentryNext ==
  \/ BindingNext
  \/ \E i \in 1..MaxListeners, body \in HandlerBodies : HandlerReenters(i, body)

SpecReentry == Init /\ [][ReentryNext]_vars

----------------------------------------------------------------------------
\* What the latest operation was, read off the record it left.

Range(h) == {h[i] : i \in 1..Len(h)}
Occurrences(h, x) == Cardinality({i \in 1..Len(h) : h[i] = x})
CallsOf(fn) == {i \in 1..Len(calls) : calls[i].fn = fn}

\* The latest operation was one invocation of a registered listener.
WasBack == last.op = "backHandler"
\* The entry that was on top when the latest operation started.
TopBefore == last.before[Len(last.before)]
\* That entry's condition passes / fails (the latest operation did not change it).
TopPasses == condition[TopBefore] = "getTrue" \/ (condition[TopBefore] = "fn" /\ flag[TopBefore])
TopFails == condition[TopBefore] = "fn" /\ ~flag[TopBefore]
\* The latest operation was a call through a slot while the registry was installed.
WasLive(name) == last.op = name /\ last.installed

\* C1: a listener invocation that finds the top entry's condition true removes
\* exactly that top entry, calls its handler once and nothing else (no
\* defaultBackAction), and leaves the entries below it as they were.
C1_TopEntryConsumed ==
  (WasBack /\ last.before # <<>> /\ TopPasses)
    => /\ history = SubSeq(last.before, 1, Len(last.before) - 1)
       /\ calls = <<Call("handler", NoOptions, TopBefore)>>

C1_Witness ==
  /\ WasBack /\ Len(last.before) = 3 /\ TopPasses
  /\ Len(history) = 2
  /\ Cardinality(CallsOf("handler")) = 1

\* C2: a listener invocation that finds the top entry's condition false calls
\* no handler and no defaultBackAction and leaves history exactly as it was.
C2_BlockedTopAbsorbsBack ==
  (WasBack /\ last.before # <<>> /\ TopFails)
    => /\ history = last.before
       /\ calls = <<>>

C2_Witness ==
  /\ WasBack /\ Len(last.before) >= 2 /\ TopFails
  /\ \E i \in 1..(Len(last.before) - 1) :
       condition[last.before[i]] = "getTrue" \/ flag[last.before[i]]
  /\ history = last.before

\* C3: a listener invocation on an empty history calls the defaultBackAction
\* of its install exactly once, calls no handler and leaves history empty;
\* and defaultBackAction is only ever called by a listener that found history
\* empty.
C3_DefaultOnlyWhenEmpty ==
  /\ (WasBack /\ last.before = <<>>)
       => /\ calls = <<Call("defaultBackAction", last.opt, NoEntry)>>
          /\ history = <<>>
  /\ CallsOf("defaultBackAction") # {} => (WasBack /\ last.before = <<>>)

C3_Witness ==
  /\ WasBack /\ last.before = <<>> /\ installed
  /\ Cardinality(CallsOf("defaultBackAction")) = 1

\* C4: history lists the entries present oldest first, every listener
\* invocation handles at most one entry, the entry it handles is the one
\* inserted last among those present, and while the top entry's condition is
\* false nothing beneath it is popped or handled.
C4_LifoConsumption ==
  /\ Len(order) = Len(history)
  /\ \A i \in 1..Len(order) : order[i] = i
  /\ WasBack =>
       /\ Cardinality(CallsOf("handler")) <= 1
       /\ CallsOf("handler") # {} =>
            /\ calls[1].entry = TopBefore
            /\ history = SubSeq(last.before, 1, Len(last.before) - 1)
       /\ (last.before # <<>> /\ TopFails) =>
            (history = last.before /\ CallsOf("handler") = {})

C4_Witness ==
  /\ WasBack /\ Len(last.before) = 3
  /\ CallsOf("handler") # {}
  /\ calls[1].entry # last.before[1]
  /\ calls[1].entry # last.before[2]
  /\ last.before[1] # last.before[2]

\* C5: an install call made while installed, or outside a browser, changes
\* nothing (installed, history, both slots, the registered listeners) and
\* calls nothing: the platform listener is not registered again and the
\* call's options are captured nowhere; outside a browser the registry never
\* becomes installed and no listener is ever registered.
C5_InstallIdempotentAndGated ==
  /\ [](~isBrowser => (~installed /\ listeners = <<>>))
  /\ [][(last'.op = "install" /\ (installed \/ ~isBrowser))
          => /\ UNCHANGED <<installed, history, addHistory, removeHistory, listeners>>
             /\ calls' = <<>>]_vars

C5_Witness ==
  /\ last.op = "install" /\ last.installed /\ installed
  /\ last.opt # addHistory.options
  /\ listeners = <<addHistory.options>>
  /\ history # <<>>
  /\ calls = <<>>

\* C6: while the registry is not installed, a call through the addHistory or
\* removeHistory slot leaves history and installed as they were and calls no
\* observer, also after a teardown and for an entry that was registered
\* before it.
C6_SlotsAreNoopsWhileUninstalled ==
  ((last.op = "addHistory" \/ last.op = "removeHistory") /\ ~last.installed)
    => /\ history = last.before
       /\ installed = last.installed
       /\ calls = <<>>

C6_Witness ==
  /\ last.op = "removeHistory" /\ ~last.installed
  /\ last.entry = "e1" /\ condition["e1"] = "getTrue"
  /\ listeners # <<>>
  /\ history = <<>>

\* C7: the teardown empties history, clears installed and puts the no-ops
\* back in both slots, whatever history held; so an uninstalled registry
\* always has an empty history and no-op slots, and an install call made in
\* a browser while uninstalled takes effect.
C7_TeardownResets ==
  /\ last.op = "unmount" =>
       (history = <<>> /\ ~installed /\ addHistory = noop /\ removeHistory = noop)
  /\ ~installed => (history = <<>> /\ addHistory = noop /\ removeHistory = noop)
  /\ (last.op = "install" /\ ~last.installed /\ isBrowser) =>
       (installed /\ addHistory = Live(last.opt) /\ removeHistory = Live(last.opt))

C7_Witness ==
  /\ last.op = "unmount" /\ Len(last.before) >= 2
  /\ Len(listeners) = 1
  /\ ~installed

\* C8: while installed, addHistory(entry) makes entry the new top of history
\* and calls the configured onHistoryAdded once, with that entry, and nothing
\* else; removeHistory(entry) that finds entry calls the configured
\* onHistoryRemoved once, with that entry, and nothing else.
C8_ObserversCalledOnce ==
  /\ WasLive("addHistory") =>
       /\ history = last.before \o <<last.entry>>
       /\ calls = IF HasOnHistoryAdded(last.opt)
                  THEN <<Call("onHistoryAdded", last.opt, last.entry)>>
                  ELSE <<>>
  /\ (WasLive("removeHistory") /\ last.entry \in Range(last.before)) =>
       calls = IF HasOnHistoryRemoved(last.opt)
               THEN <<Call("onHistoryRemoved", last.opt, last.entry)>>
               ELSE <<>>

C8_Witness ==
  /\ WasLive("addHistory") /\ HasOnHistoryAdded(last.opt)
  /\ last.before # <<>>
  /\ Cardinality(CallsOf("onHistoryAdded")) = 1

\* C9: with both observers configured, every operation made while installed
\* reports each entry it pushes through onHistoryAdded and each entry it
\* takes out of history through onHistoryRemoved, so the calls to
\* onHistoryAdded minus the calls to onHistoryRemoved stay equal to the
\* length of history.
C9_ObserversTrackHistory ==
  (last.installed /\ installed
     /\ HasOnHistoryAdded(addHistory.options)
     /\ HasOnHistoryRemoved(removeHistory.options))
    => Cardinality(CallsOf("onHistoryAdded")) - Cardinality(CallsOf("onHistoryRemoved"))
         = Len(history) - Len(last.before)

\* C10 as stated: a second removeHistory(entry) right after a first one
\* leaves history unchanged.
C10_RemovalIdempotent ==
  [][(last.op = "removeHistory" /\ last'.op = "removeHistory"
        /\ last'.entry = last.entry)
       => history' = history]_vars

\* C10, amended: while installed, removeHistory(entry) takes out the first
\* occurrence of entry and keeps everything else in order; when entry is
\* absent it changes nothing and calls no observer; when entry occurred
\* exactly once it is absent afterwards, so that a second call is a no-op.
C10_RemovesFirstOccurrence ==
  WasLive("removeHistory") =>
    LET b == last.before
        e == last.entry
    IN IF e \in Range(b)
       THEN /\ \E i \in 1..Len(b) :
                 /\ b[i] = e
                 /\ \A j \in 1..(i - 1) : b[j] # e
                 /\ history = SubSeq(b, 1, i - 1) \o SubSeq(b, i + 1, Len(b))
            /\ Occurrences(b, e) = 1 => e \notin Range(history)
       ELSE history = b /\ calls = <<>>

C10_Witness ==
  /\ WasLive("removeHistory") /\ Len(last.before) = 3
  /\ last.before[2] = last.entry
  /\ last.before[1] # last.entry /\ last.before[3] # last.entry
  /\ history = <<last.before[1], last.before[3]>>

----------------------------------------------------------------------------
\* The listener when one of the callbacks it calls throws, and the platform's
\* dispatch of one back action to the listeners registered with it.

\* The callbacks backHandler calls.
Throwers == {"condition", "handler", "defaultBackAction"}

\* Variant: the listener calls the handler first and pops afterwards, so a
\* throwing handler leaves its entry in history.
BackListenerThrows_HandlerFirst(i, who) ==
  /\ i \in 1..Len(listeners)
  /\ last' = Op("backHandler", listeners[i], NoEntry)
  /\ CASE who = "condition" ->
            /\ Len(history) # 0 /\ condition[Top(history)] # "getTrue"
            /\ calls' = <<>>
       [] who = "handler" ->
            /\ Len(history) # 0 /\ EvalCondition(Top(history))
            /\ calls' = <<Call("handler", NoOptions, Top(history))>>
       [] who = "defaultBackAction" ->
            /\ Len(history) = 0
            /\ calls' = <<Call("defaultBackAction", listeners[i], NoEntry)>>
  /\ thrown' = [by |-> who, raised |-> who]
  /\ lastB' = NoBindingOp
  /\ UNCHANGED <<isBrowser, installed, history, order, addHistory, removeHistory,
                 listeners, condition, flag, historyEntry, autoHide, disposed>>

\* The listener, invoked once, when the callback `who` throws as it is called.
\* backHandler has no try/catch/finally: the statements after the call do not
\* run and the exception reaches the listener's caller.
BackListenerThrows(i, who) ==
  /\ i \in 1..Len(listeners)
  /\ last' = Op("backHandler", listeners[i], NoEntry)
  /\ CASE who = "condition" ->
            /\ Len(history) # 0 /\ condition[Top(history)] # "getTrue"
            /\ calls' = <<>>
            /\ UNCHANGED <<history, order>>
       [] who = "handler" ->
            /\ Len(history) # 0 /\ EvalCondition(Top(history))
            /\ history' = Pop(history)
            /\ order' = Close(Pop(order), Top(order))
            /\ calls' = <<Call("handler", NoOptions, Top(history))>>
       [] who = "defaultBackAction" ->
            /\ Len(history) = 0
            /\ calls' = <<Call("defaultBackAction", listeners[i], NoEntry)>>
            /\ UNCHANGED <<history, order>>
  /\ thrown' = [by |-> who, raised |-> who]
  /\ lastB' = NoBindingOp
  /\ UNCHANGED <<isBrowser, installed, addHistory, removeHistory, listeners,
                 condition, flag, historyEntry, autoHide, disposed>>

\* Listeners k, k+1, ... run one after the other on history h (ranks r),
\* after the callbacks cs have been called.
RECURSIVE RunListeners(_, _, _, _)
RunListeners(k, h, r, cs) ==
  IF k > Len(listeners)
  THEN [history |-> h, order |-> r, calls |-> cs]
  ELSE IF Len(h) # 0
       THEN IF EvalCondition(Top(h))
            THEN RunListeners(k + 1, Pop(h), Close(Pop(r), Top(r)),
                              Append(cs, Call("handler", NoOptions, Top(h))))
            ELSE RunListeners(k + 1, h, r, cs)
       ELSE RunListeners(k + 1, h, r,
                         Append(cs, Call("defaultBackAction", listeners[k], NoEntry)))

\* One back action of the platform: it invokes every listener that was
\* registered with it through registerPlatformBackListener, in that order.
PlatformBack ==
  /\ Len(listeners) # 0
  /\ last' = Op("platformBack", NoOptions, NoEntry)
  /\ LET after == RunListeners(1, history, order, <<>>)
     IN /\ history' = after.history
        /\ order' = after.order
        /\ calls' = after.calls
  /\ UNCHANGED <<isBrowser, installed, addHistory, removeHistory, listeners,
                 condition, flag>>

DispatchNext ==
  \/ Next
  \/ \E i \in 1..MaxListeners, who \in Throwers : BackListenerThrows(i, who)
  \/ PlatformBack /\ Quiet

SpecDispatch == Init /\ [][DispatchNext]_vars

----------------------------------------------------------------------------
\* Claims about the bindings, read off lastB and last.

Without(h, x) == LET Keep(y) == y # x IN SelectSeq(h, Keep)
NoDuplicates(h) == \A i, j \in 1..Len(h) : h[i] = h[j] => i = j
\* How many entries created by binding b the sequence h holds.
CountOf(b, h) == Cardinality({i \in 1..Len(h) : h[i] \in Created(b)})
\* What binding b retained when the latest operation started.
RetainedBefore(b) == IF lastB.binding = b THEN lastB.retained ELSE historyEntry[b]

\* C11: a binding's addToHistory puts one new entry on top of history and
\* its removeFromHistory takes exactly that entry out again, wherever it is
\* by then, leaving all other entries in their order; removeFromHistory with
\* nothing retained changes nothing; afterwards nothing is retained.
C11_AddThenRemoveRestores ==
  /\ (lastB.op = "addToHistory" /\ last.installed) =>
       /\ historyEntry[lastB.binding] \notin Range(last.before)
       /\ history = last.before \o <<historyEntry[lastB.binding]>>
  /\ lastB.op = "removeFromHistory" =>
       /\ historyEntry[lastB.binding] = NoEntry
       /\ IF lastB.retained = NoEntry
          THEN history = last.before /\ calls = <<>>
          ELSE history = Without(last.before, lastB.retained)
       /\ Len(history) >= Len(last.before) - 1

C11_Witness ==
  /\ lastB.op = "removeFromHistory"
  /\ Len(last.before) = 3
  /\ last.before[1] = lastB.retained
  /\ last.before[2] \in CreatedEntries /\ last.before[3] \notin CreatedEntries
  /\ history = <<last.before[2], last.before[3]>>

\* C12: the condition of a binding's entry is the auto-hide flag as it is
\* when the listener runs: with the flag false the entry on top is neither
\* popped nor handled, with the flag true it is popped and its handler
\* called; changing the flag touches neither history nor any callback.
C12_ConditionReadsLiveFlag ==
  /\ (WasBack /\ last.before # <<>> /\ TopBefore \in CreatedEntries) =>
       IF autoHide[Owner(TopBefore)]
       THEN /\ lastB.op = "none" =>
                 history = SubSeq(last.before, 1, Len(last.before) - 1)
            /\ calls[1] = Call("handler", NoOptions, TopBefore)
       ELSE /\ history = last.before
            /\ calls = <<>>
  /\ last.op = "setAutoHide" => (history = last.before /\ calls = <<>>)

C12_Witness ==
  /\ WasBack /\ Len(last.before) >= 2
  /\ TopBefore \in CreatedEntries
  /\ ~autoHide[Owner(TopBefore)]
  /\ historyEntry[Owner(TopBefore)] = TopBefore
  /\ history = last.before

\* C13: disposal of a binding's scope while showing is true runs
\* removeFromHistory: the retained entry, if it is in history, is taken out
\* (one entry fewer, the others untouched) and nothing is retained afterwards.
C13_DisposeWhileShowingRemoves ==
  (lastB.op = "onScopeDispose" /\ lastB.showing) =>
    /\ historyEntry[lastB.binding] = NoEntry
    /\ IF lastB.retained # NoEntry /\ lastB.retained \in Range(last.before)
       THEN /\ history = Without(last.before, lastB.retained)
            /\ Len(history) = Len(last.before) - 1
       ELSE history = last.before

C13_Witness ==
  /\ lastB.op = "onScopeDispose" /\ lastB.showing
  /\ Len(last.before) = 3
  /\ last.before[2] = lastB.retained
  /\ history = <<last.before[1], last.before[3]>>

\* C14: disposal of a binding's scope while showing is false changes neither
\* history nor the retained reference and calls nothing; the entry of a
\* disposed binding is still popped and handled by the listener when it is
\* on top and the auto-hide flag is true.
C14_DisposeWhileHiddenKeeps ==
  /\ (lastB.op = "onScopeDispose" /\ ~lastB.showing) =>
       /\ history = last.before
       /\ historyEntry[lastB.binding] = lastB.retained
       /\ calls = <<>>
  /\ (WasBack /\ lastB.op = "none" /\ last.before # <<>>
        /\ TopBefore \in CreatedEntries
        /\ Owner(TopBefore) \in disposed /\ autoHide[Owner(TopBefore)]) =>
       /\ history = SubSeq(last.before, 1, Len(last.before) - 1)
       /\ calls = <<Call("handler", NoOptions, TopBefore)>>

C14_Witness ==
  /\ lastB.op = "onScopeDispose" /\ ~lastB.showing
  /\ lastB.retained # NoEntry
  /\ lastB.retained \in Range(history)
  /\ Len(history) >= 2

HandlerRan == WasBack /\ lastB.binding = "handler"
\* The entry the listener popped and handled in the latest operation.
Handled == calls[1].entry

C17_ExceptionsPropagate ==
  (WasBack /\ thrown.by # "none") =>
    /\ thrown.raised = thrown.by
    /\ thrown.by = "condition" =>
         (history = last.before /\ CallsOf("handler") = {})
    /\ thrown.by = "handler" =>
         /\ history = SubSeq(last.before, 1, Len(last.before) - 1)
         /\ calls = <<Call("handler", NoOptions, TopBefore)>>
         /\ Occurrences(history, TopBefore) = Occurrences(last.before, TopBefore) - 1
    /\ thrown.by = "defaultBackAction" =>
         (history = <<>> /\ last.before = <<>>)

C17_Witness ==
  /\ WasBack /\ thrown.by = "handler" /\ thrown.raised = "handler"
  /\ Len(last.before) >= 2
  /\ TopBefore \notin Range(history)

\* C20: the platform holds one listener of this system, so one platform
\* back action calls at most one handler or defaultBackAction and pops at
\* most one entry.
C20_OneListenerOnePop ==
  last.op = "platformBack" =>
    /\ Len(listeners) = 1
    /\ Len(calls) <= 1
    /\ Len(history) >= Len(last.before) - 1

====
